---- MODULE Spec2Model ----
(***************************************************************************)
(* The relational-algebra engine of relations.py (class Relation and the   *)
(* static operators of class Relations) as a state machine, and the        *)
(* deduplication and join strategies of etl_pipeline.py (variable etl).    *)
(*                                                                         *)
(* A client holds Relation objects in the slots "A", "B" (constructed by   *)
(* the client) and "R" (what the last operator call returned: nothing when *)
(* it raised).  A Relation object is a record of its three fields;     *)
(* the two mutable ones, the attribute list and the tuple collection, are  *)
(* Python objects, so each carries the identity of the object it refers to *)
(* (aid, did): two Relations whose aid agree share one list object.        *)
(***************************************************************************)
EXTENDS Integers, Sequences, FiniteSets, TLC

VARIABLES rels, last, etl

vars == <<rels, last, etl>>

(* ------------------------------ bounds -------------------------------- *)

\* attribute values are 1..MaxVal
MaxVal == 2
\* longest attribute list a client constructs, and widest result kept
MaxAttrs == 2
\* most tuples in a collection a client hands to the constructor
MaxRows == 2
\* deepest expression (nested operator calls) the model evaluates
MaxDepth == 2
\* longest keep_attrs list handed to projection
MaxCols == 2

\* widest schema of a result the model keeps
MaxWidth == 4

AttrNames == {"a", "b", "c"}
\* the names a client's own schemas are built from
BaseNames == {"a", "b"}
Vals == 1..MaxVal
Slots == {"A", "B", "R"}

(* ------------------------- sequences and tuples ----------------------- *)

Range(s) == {s[i] : i \in 1..Len(s)}

\* list.index(x): the first position holding x (1-based here)
IndexOf(s, x) == CHOOSE i \in 1..Len(s) : s[i] = x /\ \A j \in 1..(i - 1) : s[j] # x

\* tuple(row[i] for i in indices)
Pick(row, indices) == [k \in 1..Len(indices) |-> row[indices[k]]]

SeqsUpTo(S, n) == UNION {[1..k -> S] : k \in 0..n}

DistinctSeqs(S, lo, hi) ==
  {s \in UNION {[1..k -> S] : k \in lo..hi} :
     \A i, j \in 1..Len(s) : i # j => s[i] # s[j]}

Tuples(n) == [1..n -> Vals]

(* ----------------------------- collections ---------------------------- *)
\* The `data` argument is whatever collection the caller passes: a Python
\* set (the declared type) or a list.  A set holds each tuple once; a list
\* keeps the order and the repetitions.

SetColl(S) == [kind |-> "set", set |-> S, list |-> <<>>]
ListColl(q) == [kind |-> "list", set |-> {}, list |-> q]

\* the tuples met when iterating over the collection
Elems(c) == IF c.kind = "set" THEN c.set ELSE Range(c.list)

\* len(collection)
Size(c) == IF c.kind = "set" THEN Cardinality(c.set) ELSE Len(c.list)

\* how many times tuple t occurs in the collection
Occurrences(c, t) ==
  IF c.kind = "set" THEN (IF t \in c.set THEN 1 ELSE 0)
  ELSE Cardinality({i \in 1..Len(c.list) : c.list[i] = t})

(* ------------------------------ Relation ------------------------------ *)

\* depth is bookkeeping of the model, not a field of the class: 0 for a
\* Relation the client constructed, else the nesting of the calls behind it.
NoRel ==
  [live |-> FALSE, name |-> <<>>, attributes |-> <<>>, data |-> SetColl({}),
   aid |-> 0, did |-> 0, depth |-> 0]

\* The outcome of a call: err = "none" and the new Relation's fields, with
\* where its attribute list and its collection come from ("new": an object
\* made by the call, "arg1": the object the first argument refers to).
Ok(name, attributes, data, aref, dref) ==
  [err |-> "none", name |-> name, attributes |-> attributes, data |-> data,
   aref |-> aref, dref |-> dref]

Raise(e) ==
  [err |-> e, name |-> <<>>, attributes |-> <<>>, data |-> SetColl({}),
   aref |-> "new", dref |-> "new"]

\* the constructor without its validation loop
RelationInit_unchecked(name, attributes, data, aref, dref) ==
  Ok(name, attributes, data, aref, dref)

\* Relation.__init__: stores the three arguments as given, then raises
\* ValueError for the first tuple whose length is not len(attributes).
RelationInit(name, attributes, data, aref, dref) ==
  IF \E t \in Elems(data) : Len(t) # Len(attributes)
  THEN Raise("ArityMismatch")
  ELSE Ok(name, attributes, data, aref, dref)

(* ------------------------- class Relations ---------------------------- *)
\* A Relation's name is kept as the sequence of its parts: the f-string
\* f"{a.name}_UNION_{b.name}" is a.name \o <<"_UNION_">> \o b.name.

\* Relations.rename
rename(relation, old_name, new_name) ==
  IF old_name \notin Range(relation.attributes)
  THEN Raise("AttributeNotFound")
  ELSE LET new_attrs == [i \in 1..Len(relation.attributes) |->
                           IF relation.attributes[i] = old_name
                           THEN new_name ELSE relation.attributes[i]]
       IN RelationInit(relation.name \o <<"_renamed">>, new_attrs,
                       relation.data, "new", "new")

\* set.union / set.intersection / set.difference are methods of set only:
\* on a list rel_a.data the attribute lookup raises AttributeError; the
\* argument rel_b.data may be any iterable.
SetMethod(rel_a, rel_b, label, S) ==
  IF rel_a.attributes # rel_b.attributes
  THEN Raise("SchemaMismatch")
  ELSE IF rel_a.data.kind # "set"
  THEN Raise("AttributeError")
  ELSE RelationInit(rel_a.name \o <<label>> \o rel_b.name, rel_a.attributes,
                    SetColl(S), "arg1", "new")

\* Relations.union
union(rel_a, rel_b) ==
  SetMethod(rel_a, rel_b, "_UNION_", Elems(rel_a.data) \cup Elems(rel_b.data))

\* Relations.intersection
intersection(rel_a, rel_b) ==
  SetMethod(rel_a, rel_b, "_INTERSECT_", Elems(rel_a.data) \cap Elems(rel_b.data))

\* Relations.difference
difference(rel_a, rel_b) ==
  SetMethod(rel_a, rel_b, "_MINUS_", Elems(rel_a.data) \ Elems(rel_b.data))

\* assign passing relation.attributes on instead of a copy of it
assign_shared_attributes(relation, new_name) ==
  RelationInit(<<new_name>>, relation.attributes, relation.data, "arg1", "new")

\* Relations.assign: attributes.copy() and deepcopy(data) are new objects
assign(relation, new_name) ==
  RelationInit(<<new_name>>, relation.attributes, relation.data, "new", "new")

\* Relations.cartesian_product
cartesian_product(rel_a, rel_b) ==
  LET new_attrs == rel_a.attributes \o rel_b.attributes
      new_data == {tuple_a \o tuple_b :
                     tuple_a \in Elems(rel_a.data), tuple_b \in Elems(rel_b.data)}
  IN RelationInit(rel_a.name \o <<"_x_">> \o rel_b.name, new_attrs,
                  SetColl(new_data), "new", "new")

\* The predicates a client hands to selection: lambda row: row[pos] == val
Condition(c, row) == row[c.pos] = c.val

\* Relations.selection
selection(relation, condition) ==
  LET selected_data == {row \in Elems(relation.data) : Condition(condition, row)}
  IN RelationInit(relation.name \o <<"_SELECT">>, relation.attributes,
                  SetColl(selected_data), "arg1", "new")

\* projection naming the kept columns in the source's order, whatever the
\* order of keep_attrs
projection_source_order(relation, keep_attrs) ==
  IF \E i \in 1..Len(keep_attrs) : keep_attrs[i] \notin Range(relation.attributes)
  THEN Raise("AttributeNotFound")
  ELSE LET indices == [i \in 1..Len(keep_attrs) |->
                         IndexOf(relation.attributes, keep_attrs[i])]
           new_data == {Pick(row, indices) : row \in Elems(relation.data)}
           Kept(attr) == attr \in Range(keep_attrs)
       IN RelationInit(relation.name \o <<"_PROJ">>,
                       SelectSeq(relation.attributes, Kept),
                       SetColl(new_data), "new", "new")

\* Relations.projection: attributes.index(attr) raises ValueError for a
\* name that is not in the list
projection(relation, keep_attrs) ==
  IF \E i \in 1..Len(keep_attrs) : keep_attrs[i] \notin Range(relation.attributes)
  THEN Raise("AttributeNotFound")
  ELSE LET indices == [i \in 1..Len(keep_attrs) |->
                         IndexOf(relation.attributes, keep_attrs[i])]
           new_data == {Pick(row, indices) : row \in Elems(relation.data)}
       IN RelationInit(relation.name \o <<"_PROJ">>, keep_attrs,
                       SetColl(new_data), "new", "new")

\* natural_join with the common columns of a B row located by their place
\* in A's schema instead of B's
natural_join_columns_of_a(rel_a, rel_b) ==
  LET InB(attr) == attr \in Range(rel_b.attributes)
      common_attrs == SelectSeq(rel_a.attributes, InB)
      a_common_indices == [i \in 1..Len(common_attrs) |->
                             IndexOf(rel_a.attributes, common_attrs[i])]
      b_common_indices == [i \in 1..Len(common_attrs) |->
                             IndexOf(rel_b.attributes, common_attrs[i])]
      NotCommon(attr) == attr \notin Range(common_attrs)
      new_attrs == rel_a.attributes \o SelectSeq(rel_b.attributes, NotCommon)
      b_keys == {Pick(row_b, b_common_indices) : row_b \in Elems(rel_b.data)}
      b_index == [key \in b_keys |->
                    {row_b \in Elems(rel_b.data) :
                       Pick(row_b, b_common_indices) = key}]
      NotCommonPos(j) == j \notin Range(a_common_indices)
      b_rest == SelectSeq([j \in 1..Len(rel_b.attributes) |-> j], NotCommonPos)
      new_data == UNION {
                    {row_a \o Pick(row_b, b_rest) :
                       row_b \in b_index[Pick(row_a, a_common_indices)]} :
                    row_a \in {r \in Elems(rel_a.data) :
                                 Pick(r, a_common_indices) \in b_keys}}
  IN IF common_attrs = <<>>
     THEN cartesian_product(rel_a, rel_b)
     ELSE RelationInit(rel_a.name \o <<"_JOIN_">> \o rel_b.name, new_attrs,
                       SetColl(new_data), "new", "new")

\* Relations.natural_join
natural_join(rel_a, rel_b) ==
  LET InB(attr) == attr \in Range(rel_b.attributes)
      common_attrs == SelectSeq(rel_a.attributes, InB)
      a_common_indices == [i \in 1..Len(common_attrs) |->
                             IndexOf(rel_a.attributes, common_attrs[i])]
      b_common_indices == [i \in 1..Len(common_attrs) |->
                             IndexOf(rel_b.attributes, common_attrs[i])]
      NotCommon(attr) == attr \notin Range(common_attrs)
      new_attrs == rel_a.attributes \o SelectSeq(rel_b.attributes, NotCommon)
      \* the multi-map from a key to the rows of B holding it
      b_keys == {Pick(row_b, b_common_indices) : row_b \in Elems(rel_b.data)}
      b_index == [key \in b_keys |->
                    {row_b \in Elems(rel_b.data) :
                       Pick(row_b, b_common_indices) = key}]
      NotCommonPos(j) == j \notin Range(b_common_indices)
      b_rest == SelectSeq([j \in 1..Len(rel_b.attributes) |-> j], NotCommonPos)
      new_data == UNION {
                    {row_a \o Pick(row_b, b_rest) :
                       row_b \in b_index[Pick(row_a, a_common_indices)]} :
                    row_a \in {r \in Elems(rel_a.data) :
                                 Pick(r, a_common_indices) \in b_keys}}
  IN IF common_attrs = <<>>
     THEN cartesian_product(rel_a, rel_b)
     ELSE RelationInit(rel_a.name \o <<"_JOIN_">> \o rel_b.name, new_attrs,
                       SetColl(new_data), "new", "new")

\* division with the Y values of A read in A's column order, not B's
division_y_in_a_order(rel_a, rel_b) ==
  LET InB(attr) == attr \in Range(rel_b.attributes)
      InA(attr) == attr \in Range(rel_a.attributes)
      common_attrs == SelectSeq(rel_a.attributes, InB)
      NotCommon(attr) == attr \notin Range(common_attrs)
      result_attrs == SelectSeq(rel_a.attributes, NotCommon)
      a_common_indices == [i \in 1..Len(common_attrs) |->
                             IndexOf(rel_a.attributes, common_attrs[i])]
      a_result_indices == [i \in 1..Len(result_attrs) |->
                             IndexOf(rel_a.attributes, result_attrs[i])]
      b_tuples == Elems(rel_b.data)
      xs == {Pick(row, a_result_indices) : row \in Elems(rel_a.data)}
      a_grouped == [x \in xs |->
                      {Pick(row, a_common_indices) :
                         row \in {r \in Elems(rel_a.data) :
                                    Pick(r, a_result_indices) = x}}]
      result_data == {x \in xs : b_tuples \subseteq a_grouped[x]}
  IN IF Range(rel_b.attributes) # Range(SelectSeq(rel_b.attributes, InA))
     THEN Raise("AttributeSubset")
     ELSE IF result_attrs = <<>>
     THEN Raise("EmptyResultSchema")
     ELSE RelationInit(rel_a.name \o <<"_DIV_">> \o rel_b.name, result_attrs,
                       SetColl(result_data), "new", "new")

\* division keeping the X values seen with some tuple of B, not with all
division_some_y(rel_a, rel_b) ==
  LET InA(attr) == attr \in Range(rel_a.attributes)
      common_attrs == SelectSeq(rel_b.attributes, InA)
      NotCommon(attr) == attr \notin Range(common_attrs)
      result_attrs == SelectSeq(rel_a.attributes, NotCommon)
      a_common_indices == [i \in 1..Len(common_attrs) |->
                             IndexOf(rel_a.attributes, common_attrs[i])]
      a_result_indices == [i \in 1..Len(result_attrs) |->
                             IndexOf(rel_a.attributes, result_attrs[i])]
      b_tuples == Elems(rel_b.data)
      xs == {Pick(row, a_result_indices) : row \in Elems(rel_a.data)}
      a_grouped == [x \in xs |->
                      {Pick(row, a_common_indices) :
                         row \in {r \in Elems(rel_a.data) :
                                    Pick(r, a_result_indices) = x}}]
      result_data == {x \in xs : b_tuples \cap a_grouped[x] # {}}
  IN IF Range(rel_b.attributes) # Range(common_attrs)
     THEN Raise("AttributeSubset")
     ELSE IF result_attrs = <<>>
     THEN Raise("EmptyResultSchema")
     ELSE RelationInit(rel_a.name \o <<"_DIV_">> \o rel_b.name, result_attrs,
                       SetColl(result_data), "new", "new")

\* division testing for an empty result schema before the subset test
division_empty_test_first(rel_a, rel_b) ==
  LET InA(attr) == attr \in Range(rel_a.attributes)
      common_attrs == SelectSeq(rel_b.attributes, InA)
      NotCommon(attr) == attr \notin Range(common_attrs)
      result_attrs == SelectSeq(rel_a.attributes, NotCommon)
      a_common_indices == [i \in 1..Len(common_attrs) |->
                             IndexOf(rel_a.attributes, common_attrs[i])]
      a_result_indices == [i \in 1..Len(result_attrs) |->
                             IndexOf(rel_a.attributes, result_attrs[i])]
      b_tuples == Elems(rel_b.data)
      xs == {Pick(row, a_result_indices) : row \in Elems(rel_a.data)}
      a_grouped == [x \in xs |->
                      {Pick(row, a_common_indices) :
                         row \in {r \in Elems(rel_a.data) :
                                    Pick(r, a_result_indices) = x}}]
      result_data == {x \in xs : b_tuples \subseteq a_grouped[x]}
  IN IF result_attrs = <<>>
     THEN Raise("EmptyResultSchema")
     ELSE IF Range(rel_b.attributes) # Range(common_attrs)
     THEN Raise("AttributeSubset")
     ELSE RelationInit(rel_a.name \o <<"_DIV_">> \o rel_b.name, result_attrs,
                       SetColl(result_data), "new", "new")

\* Relations.division
division(rel_a, rel_b) ==
  LET InA(attr) == attr \in Range(rel_a.attributes)
      common_attrs == SelectSeq(rel_b.attributes, InA)
      NotCommon(attr) == attr \notin Range(common_attrs)
      result_attrs == SelectSeq(rel_a.attributes, NotCommon)
      a_common_indices == [i \in 1..Len(common_attrs) |->
                             IndexOf(rel_a.attributes, common_attrs[i])]
      a_result_indices == [i \in 1..Len(result_attrs) |->
                             IndexOf(rel_a.attributes, result_attrs[i])]
      b_tuples == Elems(rel_b.data)
      \* group A by X: the Y values seen with each X
      xs == {Pick(row, a_result_indices) : row \in Elems(rel_a.data)}
      a_grouped == [x \in xs |->
                      {Pick(row, a_common_indices) :
                         row \in {r \in Elems(rel_a.data) :
                                    Pick(r, a_result_indices) = x}}]
      result_data == {x \in xs : b_tuples \subseteq a_grouped[x]}
  IN IF Range(rel_b.attributes) # Range(common_attrs)
     THEN Raise("AttributeSubset")
     ELSE IF result_attrs = <<>>
     THEN Raise("EmptyResultSchema")
     ELSE RelationInit(rel_a.name \o <<"_DIV_">> \o rel_b.name, result_attrs,
                       SetColl(result_data), "new", "new")

(* --------------------- etl_pipeline.py: records ----------------------- *)
\* A record is a Python dict: its items in insertion order, as a sequence
\* of [k, v] with distinct keys.  A key is a string, held as the sequence
\* of its parts so that f"{k}_2" is k \o <<"_2">>.  A value is an int, a
\* str (the sequence of its characters) or None (what dict.get returns for
\* a missing key); values of different types are never equal.

\* most records in a list handed to a strategy
MaxRecords == 3
\* the ints are 0..MaxInt
MaxInt == 11

IntVal(n) == [t |-> "int", n |-> n, s |-> <<>>]
StrVal(s) == [t |-> "str", n |-> 0, s |-> s]
NoneVal == [t |-> "None", n |-> 0, s |-> <<>>]

\* the key names, in the order of Python's string comparison
SortedKeys == << <<"id">>, <<"id", "_2">>, <<"name">>, <<"name", "_2">> >>

Keys(item) == {item[i].k : i \in 1..Len(item)}

\* item[k]
Lookup(item, k) == (CHOOSE i \in 1..Len(item) : item[i].k = k)

\* item.get(k)
Get(item, k) == IF k \in Keys(item) THEN item[Lookup(item, k)].v ELSE NoneVal

\* dict == dict: the same keys with equal values, in whatever order
DictEq(d, e) == Range(d) = Range(e)

\* sorted(item.items()), and the key order of json.dumps(sort_keys=True):
\* the keys of a dict are distinct, so the order never looks at a value
SortedItems(item) ==
  LET present == SelectSeq(SortedKeys, LAMBDA k : k \in Keys(item))
  IN [j \in 1..Len(present) |-> item[Lookup(item, present[j])]]

\* str(n) for n >= 0, a character per digit
RECURSIVE Digits(_)
Digits(n) ==
  LET d == <<"0", "1", "2", "3", "4", "5", "6", "7", "8", "9">>[(n % 10) + 1]
  IN IF n < 10 THEN <<d>> ELSE Digits(n \div 10) \o <<d>>

\* json.dumps of a value: an int as its digits, a str between quotes
DumpValue(v) ==
  CASE v.t = "int" -> Digits(v.n)
    [] v.t = "str" -> <<"\"">> \o v.s \o <<"\"">>
    [] OTHER -> <<"null">>

RECURSIVE DumpItems(_)
DumpItems(items) ==
  IF items = <<>> THEN <<>>
  ELSE LET one == <<"\"">> \o items[1].k \o <<"\"", ": ">> \o DumpValue(items[1].v)
       IN IF Len(items) = 1 THEN one
          ELSE one \o <<", ">> \o DumpItems(Tail(items))

\* json.dumps(item) without sort_keys: the items in insertion order
json_dumps_insertion_order(item) == <<"{">> \o DumpItems(item) \o <<"}">>

\* json.dumps(item, sort_keys=True)
json_dumps(item) == <<"{">> \o DumpItems(SortedItems(item)) \o <<"}">>

\* hashlib.md5(item_str.encode()).hexdigest(): the digest stands for the
\* text it was computed from (MD5 tells apart all the texts of the records
\* within the bounds)
hexdigest(item_str) == [md5 |-> item_str]

(* ----------------------- class Deduplicator --------------------------- *)

\* Deduplicator.naive_deduplicate: item not in unique_data
RECURSIVE naive_loop(_, _)
naive_loop(data, unique_data) ==
  IF data = <<>> THEN unique_data
  ELSE LET item == Head(data)
       IN naive_loop(Tail(data),
                     IF \E i \in 1..Len(unique_data) : DictEq(unique_data[i], item)
                     THEN unique_data ELSE Append(unique_data, item))

naive_deduplicate(data) == naive_loop(data, <<>>)

\* Deduplicator.hash_deduplicate
RECURSIVE hash_loop(_, _, _)
hash_loop(data, seen_hashes, unique_data) ==
  IF data = <<>> THEN unique_data
  ELSE LET item == Head(data)
           item_hash == hexdigest(json_dumps(item))
       IN IF item_hash \notin seen_hashes
          THEN hash_loop(Tail(data), seen_hashes \cup {item_hash},
                         Append(unique_data, item))
          ELSE hash_loop(Tail(data), seen_hashes, unique_data)

hash_deduplicate(data) == hash_loop(data, {}, <<>>)

\* tuple(item.items()): the items in insertion order
item_tuple_unsorted(item) == item

\* tuple(sorted(item.items()))
item_tuple(item) == SortedItems(item)

\* Deduplicator.set_deduplicate
RECURSIVE set_loop(_, _, _)
set_loop(data, seen, unique_data) ==
  IF data = <<>> THEN unique_data
  ELSE LET item == Head(data)
       IN IF item_tuple(item) \notin seen
          THEN set_loop(Tail(data), seen \cup {item_tuple(item)},
                        Append(unique_data, item))
          ELSE set_loop(Tail(data), seen, unique_data)

set_deduplicate(data) == set_loop(data, {}, <<>>)

(* ----------------------- class JoinOptimizer -------------------------- *)

\* f"{k}_2"
Suffixed(k) == k \o <<"_2">>

\* {f"{k}_2": v for k, v in row2.items() if k != key}
RECURSIVE Renamed(_, _)
Renamed(row2, key) ==
  IF row2 = <<>> THEN <<>>
  ELSE IF row2[1].k # key
       THEN <<[k |-> Suffixed(row2[1].k), v |-> row2[1].v]>> \o Renamed(Tail(row2), key)
       ELSE Renamed(Tail(row2), key)

\* {**d, **more}: a key d holds keeps its place and takes the new value,
\* a new key goes to the end
RECURSIVE Unpacked(_, _)
Unpacked(d, more) ==
  IF more = <<>> THEN d
  ELSE Unpacked(IF more[1].k \in Keys(d)
                THEN [d EXCEPT ![Lookup(d, more[1].k)].v = more[1].v]
                ELSE Append(d, more[1]),
                Tail(more))

Merged(row1, row2, key) == Unpacked(row1, Renamed(row2, key))

\* the inner loop of naive_cartesian_join: for row2 in data2
RECURSIVE naive_inner(_, _, _, _)
naive_inner(row1, data2, key, result) ==
  IF data2 = <<>> THEN result
  ELSE naive_inner(row1, Tail(data2), key,
                   IF Get(row1, key) = Get(Head(data2), key)
                   THEN Append(result, Merged(row1, Head(data2), key))
                   ELSE result)

\* the outer loop: for row1 in data1
RECURSIVE naive_outer(_, _, _, _)
naive_outer(data1, data2, key, result) ==
  IF data1 = <<>> THEN result
  ELSE naive_outer(Tail(data1), data2, key,
                   naive_inner(Head(data1), data2, key, result))

\* JoinOptimizer.naive_cartesian_join
naive_cartesian_join(data1, data2, key) == naive_outer(data1, data2, key, <<>>)

\* hash_index[row.get(key)] = [row]: the index keeps the last row of a key
RECURSIVE index_last_row(_, _, _)
index_last_row(data2, key, hash_index) ==
  IF data2 = <<>> THEN hash_index
  ELSE LET row == Head(data2)
           v == Get(row, key)
       IN index_last_row(Tail(data2), key,
            [x \in DOMAIN hash_index \cup {v} |->
               IF x = v THEN <<row>> ELSE hash_index[x]])

\* hash_index = defaultdict(list);
\* for row in data2: hash_index[row.get(key)].append(row)
RECURSIVE build_index(_, _, _)
build_index(data2, key, hash_index) ==
  IF data2 = <<>> THEN hash_index
  ELSE LET row == Head(data2)
           v == Get(row, key)
       IN build_index(Tail(data2), key,
            [x \in DOMAIN hash_index \cup {v} |->
               IF x = v
               THEN (IF v \in DOMAIN hash_index THEN hash_index[v] ELSE <<>>)
                      \o <<row>>
               ELSE hash_index[x]])

\* for row2 in matching_rows
RECURSIVE probe_matches(_, _, _, _)
probe_matches(row1, matching_rows, key, result) ==
  IF matching_rows = <<>> THEN result
  ELSE probe_matches(row1, Tail(matching_rows), key,
                     Append(result, Merged(row1, Head(matching_rows), key)))

\* for row1 in data1: matching_rows = hash_index.get(row1.get(key), [])
RECURSIVE probe(_, _, _, _)
probe(data1, hash_index, key, result) ==
  IF data1 = <<>> THEN result
  ELSE LET row1 == Head(data1)
           v == Get(row1, key)
           matching_rows == IF v \in DOMAIN hash_index THEN hash_index[v] ELSE <<>>
       IN probe(Tail(data1), hash_index, key,
                probe_matches(row1, matching_rows, key, result))

\* JoinOptimizer.hash_join
hash_join(data1, data2, key) ==
  probe(data1, build_index(data2, key, [x \in {} |-> <<>>]), key, <<>>)

(* ----------------------- run_etl_pipeline ---------------------------- *)
\* The state of a run of the pipeline: where it is (pc), the list it
\* loaded, what each strategy returned, the arguments and the results of
\* the two joins, and the exception that ended it (err).
EtlState(pc, data, data1, data2, key) ==
  [pc |-> pc, err |-> "none", data |-> data,
   unique_naive |-> <<>>, unique_hash |-> <<>>, unique_set |-> <<>>,
   data1 |-> data1, data2 |-> data2, key |-> key,
   join_naive |-> <<>>, join_hash |-> <<>>]

\* no pipeline is run
NoEtl == EtlState("idle", <<>>, <<>>, <<>>, <<>>)

(* --------------------------- the state machine ------------------------ *)

\* the arguments of a constructor call, as a record of the Relation shape
Args(name, attributes, data) ==
  [live |-> FALSE, name |-> name, attributes |-> attributes, data |-> data,
   aid |-> 0, did |-> 0, depth |-> 0]

\* the record of the last call: the operator, how it ended, the Relations
\* it was given (as they were at the call) and its other arguments
CallRecord(op, err, a, b, names, pos, val) ==
  [op |-> op, err |-> err, a |-> a, b |-> b, names |-> names,
   pos |-> pos, val |-> val]

NoCall == CallRecord("none", "none", NoRel, NoRel, <<>>, 0, 0)

\* identity of a new object: the least one no other live Relation refers to
NewId(used) ==
  CHOOSE i \in 1..(Cardinality(Slots) + 1) :
    i \notin used /\ \A j \in 1..(i - 1) : j \in used

\* the Relation object a successful call returns, bound to slot dst
Place(dst, res, arg1, depth) ==
  LET held == {s \in Slots : rels[s].live}
  IN [live |-> TRUE, name |-> res.name, attributes |-> res.attributes,
      data |-> res.data,
      aid |-> IF res.aref = "arg1" THEN arg1.aid
              ELSE NewId({rels[s].aid : s \in held}),
      did |-> IF res.dref = "arg1" THEN arg1.did
              ELSE NewId({rels[s].did : s \in held}),
      depth |-> depth]

Live == {s \in Slots : rels[s].live}

\* no operator has been called yet
FirstCall == last.op \in {"none", "Relation"}

\* an exception is caught nowhere: it ends the client
Running == last.err = "none"

\* A client: the Relations it builds before it calls operators (need), how
\* deep it nests operator calls (depth), whether it makes one call only.
Client(need, depth, once) == [need |-> need, depth |-> depth, once |-> once]

\* cartesian_product extending rel_a.attributes in place instead of building
\* a new list with +
After_extend_in_place(op, rel_a, rel_b) ==
  [a |-> IF op = "cartesian_product"
         THEN [rel_a EXCEPT !.attributes = rel_a.attributes \o rel_b.attributes]
         ELSE rel_a,
   b |-> rel_b]

\* The Relations a call was given, as the call leaves them.  The operators
\* read relation.name, relation.attributes and relation.data (comparison,
\* iteration, index, +, copy, deepcopy, set methods that return a new set)
\* and store into no field and no collection of an argument: the only
\* stores are those of Relation.__init__ into the object it builds, and the
\* only collections written are local (new_data, b_index, a_grouped).
After(op, rel_a, rel_b) == [a |-> rel_a, b |-> rel_b]

\* a Relation held by the client, seen after a call that was given `before`
\* and left it as `after`: the attribute list and the tuple collection are
\* seen through every Relation that refers to them
Seen(r, before, after) ==
  IF ~r.live \/ ~before.live THEN r
  ELSE [r EXCEPT
          !.name = IF r.did = before.did THEN after.name ELSE @,
          !.attributes = IF r.aid = before.aid THEN after.attributes ELSE @,
          !.data = IF r.did = before.did THEN after.data ELSE @]

\* a call ends: dst holds what the call returned, which is nothing when it
\* raised; the other slots hold what the call left of their Relations.
\* Expressions nested deeper than the client's depth and results wider than
\* MaxWidth are not explored.
Return(op, res, dst, c, a, b, names, pos, val) ==
  LET depth == IF op = "Relation" THEN 0
               ELSE 1 + (IF a.depth >= b.depth THEN a.depth ELSE b.depth)
  IN /\ Running
     /\ op # "Relation" => c.need \subseteq Live
     /\ c.once => FirstCall
     /\ depth <= c.depth
     /\ res.err = "none" => Len(res.attributes) <= MaxWidth
     /\ rels' = [s \in Slots |->
                   IF s = dst
                   THEN IF res.err = "none" THEN Place(dst, res, a, depth)
                        ELSE NoRel
                   ELSE Seen(Seen(rels[s], a, After(op, a, b).a),
                             b, After(op, a, b).b)]
     /\ last' = CallRecord(op, res.err, a, b, names, pos, val)
     /\ UNCHANGED etl


\* what a client may hand to the constructor: tuples of any length
TuplesUpTo(n) == UNION {Tuples(k) : k \in 1..n}
AllTuples == TuplesUpTo(MaxAttrs)
SetsOf(T, n) == {SetColl(S) : S \in {U \in SUBSET T : Cardinality(U) <= n}}
ListsOf(T, n) == {ListColl(q) : q \in SeqsUpTo(T, n)}
Schemas == DistinctSeqs(BaseNames, 1, MaxAttrs)
WideSchemas == DistinctSeqs(AttrNames, 1, MaxAttrs)

\* Relation(name, attributes, data), bound to slot s on success
\* (the client builds its Relations first, A before B, then composes
\* operator calls)
Construct(s, schemas, inputs) ==
  /\ s \in {"A", "B"}
  /\ ~rels[s].live
  /\ s = "B" => rels["A"].live
  /\ FirstCall
  /\ \E attributes \in schemas, data \in inputs :
       Return("Relation", RelationInit(<<s>>, attributes, data, "new", "new"),
              s, Client({}, 0, TRUE), Args(<<s>>, attributes, data), NoRel,
              <<>>, 0, 0)

Rename(c) ==
  \E x \in Live, old_name \in AttrNames, new_name \in AttrNames :
    Return("rename", rename(rels[x], old_name, new_name), "R", c,
           rels[x], NoRel, <<old_name, new_name>>, 0, 0)

Union(c) ==
  \E x \in Live, y \in Live :
    Return("union", union(rels[x], rels[y]), "R", c,
           rels[x], rels[y], <<>>, 0, 0)

Intersection(c) ==
  \E x \in Live, y \in Live :
    Return("intersection", intersection(rels[x], rels[y]), "R", c,
           rels[x], rels[y], <<>>, 0, 0)

Difference(c) ==
  \E x \in Live, y \in Live :
    Return("difference", difference(rels[x], rels[y]), "R", c,
           rels[x], rels[y], <<>>, 0, 0)

Assign(c) ==
  \E x \in Live :
    Return("assign", assign(rels[x], "T"), "R", c,
           rels[x], NoRel, <<"T">>, 0, 0)

CartesianProduct(c) ==
  \E x \in Live, y \in Live :
    Return("cartesian_product", cartesian_product(rels[x], rels[y]), "R", c,
           rels[x], rels[y], <<>>, 0, 0)

Selection(c) ==
  \E x \in Live :
    \E pos \in 1..Len(rels[x].attributes), val \in Vals :
      Return("selection", selection(rels[x], [pos |-> pos, val |-> val]),
             "R", c, rels[x], NoRel, <<>>, pos, val)

Projection(c) ==
  \E x \in Live, keep_attrs \in SeqsUpTo(AttrNames, MaxCols) :
    Return("projection", projection(rels[x], keep_attrs), "R", c,
           rels[x], NoRel, keep_attrs, 0, 0)

NaturalJoin(c) ==
  \E x \in Live, y \in Live :
    Return("natural_join", natural_join(rels[x], rels[y]), "R", c,
           rels[x], rels[y], <<>>, 0, 0)

Division(c) ==
  \E x \in Live, y \in Live :
    Return("division", division(rels[x], rels[y]), "R", c,
           rels[x], rels[y], <<>>, 0, 0)

Init ==
  /\ rels = [s \in Slots |-> NoRel]
  /\ last = NoCall
  /\ etl = NoEtl

Inputs == SetsOf(AllTuples, MaxRows) \cup ListsOf(AllTuples, MaxRows)

(* The engine under a client that builds one Relation and nests operator   *)
(* calls on it and on their results.                                       *)
Nesting == Client({"A"}, MaxDepth, FALSE)

Next ==
  \/ Construct("A", Schemas, Inputs)
  \/ Rename(Nesting)
  \/ Union(Nesting)
  \/ Intersection(Nesting)
  \/ Difference(Nesting)
  \/ Assign(Nesting)
  \/ CartesianProduct(Nesting)
  \/ Selection(Nesting)
  \/ Projection(Nesting)
  \/ NaturalJoin(Nesting)
  \/ Division(Nesting)

Spec == Init /\ [][Next]_vars

(* The engine under a client that builds two Relations and applies one     *)
(* operator to them.                                                       *)
OneCall == Client({"A", "B"}, 1, TRUE)

NextOps ==
  \/ \E s \in Slots : Construct(s, Schemas, Inputs)
  \/ Rename(OneCall)
  \/ Union(OneCall)
  \/ Intersection(OneCall)
  \/ Difference(OneCall)
  \/ Assign(OneCall)
  \/ CartesianProduct(OneCall)
  \/ Selection(OneCall)
  \/ Projection(OneCall)
  \/ NaturalJoin(OneCall)
  \/ Division(OneCall)

SpecOps == Init /\ [][NextOps]_vars

(* natural_join applied once to two Relations whose schemas are drawn from *)
(* three names, so that they may share none, some or all of them.          *)
NextJoin ==
  \/ \E s \in Slots : Construct(s, WideSchemas, Inputs)
  \/ NaturalJoin(OneCall)

SpecJoin == Init /\ [][NextJoin]_vars

(* division applied once: the dividend A has up to MaxAttrs + 1 attributes *)
(* out of three names, the divisor B up to MaxAttrs.                       *)
DividendSchemas == DistinctSeqs(AttrNames, 1, MaxAttrs + 1)
DividendInputs == SetsOf(TuplesUpTo(MaxAttrs + 1), MaxRows)

NextDiv ==
  \/ Construct("A", DividendSchemas, DividendInputs)
  \/ Construct("B", WideSchemas, Inputs)
  \/ Division(OneCall)

SpecDiv == Init /\ [][NextDiv]_vars

(* projection applied to a Relation of up to MaxAttrs + 1 attributes and   *)
(* again to its result.                                                    *)
Twice == Client({"A"}, 2, FALSE)

NextProj ==
  \/ Construct("A", DividendSchemas, DividendInputs \cup Inputs)
  \/ Projection(Twice)

SpecProj == Init /\ [][NextProj]_vars

(* In-place changes a host program can make to the objects a Relation      *)
(* refers to: Relation keeps the list and the collection it was given in   *)
(* public fields.  A change to an object shows in every Relation that      *)
(* refers to it.  The changes keep the Relation well formed (the list      *)
(* keeps its length, an added tuple has the schema's arity) and are made   *)
(* once per object after a call to assign.                                 *)

\* relation.attributes[i] = n
MutateAttributes(s) ==
  /\ Running
  /\ last.op = "assign"
  /\ rels[s].live
  /\ rels[s].attributes = last.a.attributes
  /\ \E i \in 1..Len(rels[s].attributes), n \in AttrNames :
       /\ n # rels[s].attributes[i]
       /\ rels' = [t \in Slots |->
                     IF rels[t].live /\ rels[t].aid = rels[s].aid
                     THEN [rels[t] EXCEPT !.attributes[i] = n]
                     ELSE rels[t]]
  /\ UNCHANGED <<last, etl>>

\* relation.data.add(t) on a set, relation.data.append(t) on a list
Added(c, t) ==
  IF c.kind = "set" THEN SetColl(c.set \cup {t}) ELSE ListColl(Append(c.list, t))

MutateData(s) ==
  /\ Running
  /\ last.op = "assign"
  /\ rels[s].live
  /\ rels[s].data = last.a.data
  /\ Size(rels[s].data) <= MaxRows
  /\ \E t \in Tuples(Len(rels[s].attributes)) :
       /\ Added(rels[s].data, t) # rels[s].data
       /\ rels' = [u \in Slots |->
                     IF rels[u].live /\ rels[u].did = rels[s].did
                     THEN [rels[u] EXCEPT !.data = Added(rels[s].data, t)]
                     ELSE rels[u]]
  /\ UNCHANGED <<last, etl>>

(* assign under a host that changes Relations in place after copying them *)
NextAssign ==
  \/ Construct("A", Schemas, Inputs)
  \/ Assign(Nesting)
  \/ \E s \in Slots : MutateAttributes(s)
  \/ \E s \in Slots : MutateData(s)

SpecAssign == Init /\ [][NextAssign]_vars

(* The deduplication stage of run_etl_pipeline: the three strategies are   *)
(* applied to the loaded list one after the other, then the counts are     *)
(* asserted equal.                                                         *)

DedupKeys == << <<"id">>, <<"name">> >>
DedupValues == {IntVal(1), IntVal(MaxInt), StrVal(<<"1">>), StrVal(<<"1", "1">>)}

\* the dicts with the keys of `keys`, inserted in any order
RecordsOver(keys, values) ==
  {item \in [1..Len(keys) -> [k : Range(keys), v : values]] :
     \A i, j \in 1..Len(item) : i # j => item[i].k # item[j].k}

\* the lists of records a run may load: every record has the same keys
DedupInputs ==
  UNION {SeqsUpTo(RecordsOver(SubSeq(DedupKeys, 1, n), DedupValues), MaxRecords) :
           n \in 1..Len(DedupKeys)}

Loaded(data) == EtlState("loaded", data, <<>>, <<>>, <<>>)

NaiveDeduplicate ==
  /\ etl.pc = "loaded"
  /\ etl' = [etl EXCEPT !.pc = "naive",
                        !.unique_naive = naive_deduplicate(etl.data)]
  /\ UNCHANGED <<rels, last>>

HashDeduplicate ==
  /\ etl.pc = "naive"
  /\ etl' = [etl EXCEPT !.pc = "hash",
                        !.unique_hash = hash_deduplicate(etl.data)]
  /\ UNCHANGED <<rels, last>>

SetDeduplicate ==
  /\ etl.pc = "hash"
  /\ etl' = [etl EXCEPT !.pc = "set",
                        !.unique_set = set_deduplicate(etl.data)]
  /\ UNCHANGED <<rels, last>>

\* assert len(unique_naive) == len(unique_hash) == len(unique_set)
AssertCounts ==
  /\ etl.pc = "set"
  /\ etl' = [etl EXCEPT
               !.pc = "checked",
               !.err = IF /\ Len(etl.unique_naive) = Len(etl.unique_hash)
                          /\ Len(etl.unique_hash) = Len(etl.unique_set)
                       THEN "none" ELSE "AssertionError"]
  /\ UNCHANGED <<rels, last>>

InitDedup ==
  /\ rels = [s \in Slots |-> NoRel]
  /\ last = NoCall
  /\ etl \in {Loaded(data) : data \in DedupInputs}

NextDedup ==
  \/ NaiveDeduplicate
  \/ HashDeduplicate
  \/ SetDeduplicate
  \/ AssertCounts

SpecDedup == InitDedup /\ [][NextDedup]_vars

(* The join stage of run_etl_pipeline: the two strategies are applied to   *)
(* the same two lists and key, one after the other.                        *)

\* most records in the left list of a join
MaxLeft == 2

Item(k, v) == [k |-> k, v |-> v]

\* the records joined: with and without each key, int and str values, and a
\* key that is the suffixed form of another
JoinRecords ==
  { <<>>,
    <<Item(<<"id">>, IntVal(1))>>,
    <<Item(<<"id">>, StrVal(<<"1">>))>>,
    <<Item(<<"name">>, IntVal(1))>>,
    <<Item(<<"id">>, IntVal(1)), Item(<<"name">>, IntVal(1))>>,
    <<Item(<<"id">>, IntVal(1)), Item(<<"name">>, StrVal(<<"1">>))>>,
    <<Item(<<"id">>, StrVal(<<"1">>)), Item(<<"name">>, IntVal(1))>>,
    <<Item(<<"id">>, IntVal(1)), Item(<<"id", "_2">>, StrVal(<<"1">>))>> }

JoinKeys == {<<"id">>, <<"name">>}

NaiveCartesianJoin ==
  /\ etl.pc = "left_right"
  /\ etl' = [etl EXCEPT
               !.pc = "join_naive",
               !.join_naive = naive_cartesian_join(etl.data1, etl.data2, etl.key)]
  /\ UNCHANGED <<rels, last>>

HashJoin ==
  /\ etl.pc = "join_naive"
  /\ etl' = [etl EXCEPT
               !.pc = "joined",
               !.join_hash = hash_join(etl.data1, etl.data2, etl.key)]
  /\ UNCHANGED <<rels, last>>

InitHashJoin ==
  /\ rels = [s \in Slots |-> NoRel]
  /\ last = NoCall
  /\ etl \in {EtlState("left_right", <<>>, data1, data2, key) :
                data1 \in SeqsUpTo(JoinRecords, MaxLeft),
                data2 \in SeqsUpTo(JoinRecords, MaxRecords),
                key \in JoinKeys}

NextHashJoin ==
  \/ NaiveCartesianJoin
  \/ HashJoin

SpecHashJoin == InitHashJoin /\ [][NextHashJoin]_vars

(* ------------------------------ the claims ---------------------------- *)

Distinct(s) == \A i, j \in 1..Len(s) : i # j => s[i] # s[j]

\* the positions of row, in order, that pass the test Keep
Positions(n, Keep(_)) == SelectSeq([j \in 1..n |-> j], Keep)

\* a and b hold equal values on every attribute name common to both
AgreeOnCommon(A, a, B, b) ==
  \A i \in 1..Len(A.attributes), j \in 1..Len(B.attributes) :
    A.attributes[i] = B.attributes[j] => a[i] = b[j]

\* b with the positions of the common attributes removed
WithoutCommon(A, B, b) ==
  LET Private(j) == B.attributes[j] \notin Range(A.attributes)
  IN Pick(b, Positions(Len(B.attributes), Private))

\* the reference equi-join of A and B
RefJoinData(A, B) ==
  {a \o WithoutCommon(A, B, b) :
     <<a, b>> \in {p \in Elems(A.data) \X Elems(B.data) :
                     AgreeOnCommon(A, p[1], B, p[2])}}

RefJoinAttrs(A, B) ==
  LET Private(n) == n \notin Range(A.attributes)
  IN A.attributes \o SelectSeq(B.attributes, Private)

JoinCalled ==
  /\ last.op = "natural_join"
  /\ Distinct(last.a.attributes)
  /\ Distinct(last.b.attributes)

\* C1: for Relations A and B with distinct attribute names each,
\* natural_join(A, B) returns a Relation whose schema is A's attributes
\* followed by B's attributes that are not common, and whose data is exactly
\* the reference equi-join (no tuple missing, none extra); with no common
\* name the data is every concatenation of a tuple of A with a tuple of B.
C1_NaturalJoinIsEquiJoin ==
  JoinCalled =>
    /\ last.err = "none"
    /\ rels["R"].live
    /\ rels["R"].attributes = RefJoinAttrs(last.a, last.b)
    /\ rels["R"].data = SetColl(RefJoinData(last.a, last.b))
    /\ Range(last.a.attributes) \cap Range(last.b.attributes) = {} =>
         rels["R"].data =
           SetColl({a \o b : a \in Elems(last.a.data), b \in Elems(last.b.data)})

\* a join on one common name of two-column Relations, where some pair of
\* tuples matches and some pair does not
C1_Witness ==
  /\ JoinCalled
  /\ Len(last.a.attributes) = 2
  /\ Len(last.b.attributes) = 2
  /\ Cardinality(Range(last.a.attributes) \cap Range(last.b.attributes)) = 1
  /\ rels["R"].live
  /\ Elems(rels["R"].data) # {}
  /\ Cardinality(Elems(rels["R"].data))
       < Cardinality(Elems(last.a.data)) * Cardinality(Elems(last.b.data))

\* A's attributes that are not in B, in A's order
RestAttrs(A, B) ==
  LET Private(n) == n \notin Range(B.attributes)
  IN SelectSeq(A.attributes, Private)

\* the tuple over A's schema holding x on the result attributes' positions
\* and y (a tuple over B's schema) on B's attributes' positions
Combine(A, B, x, y) ==
  [i \in 1..Len(A.attributes) |->
     IF A.attributes[i] \in Range(B.attributes)
     THEN y[IndexOf(B.attributes, A.attributes[i])]
     ELSE x[IndexOf(RestAttrs(A, B), A.attributes[i])]]

\* x with every tuple of B is in A
Divides(A, B, x) == \A y \in Elems(B.data) : Combine(A, B, x, y) \in Elems(A.data)

\* the X values of A: its tuples on the result attributes' positions
XValues(A, B) ==
  LET Private(i) == A.attributes[i] \notin Range(B.attributes)
  IN {Pick(t, Positions(Len(A.attributes), Private)) : t \in Elems(A.data)}

\* division was called on Relations that meet its two preconditions
DivisionCalled ==
  /\ last.op = "division"
  /\ Distinct(last.a.attributes)
  /\ Distinct(last.b.attributes)
  /\ Range(last.b.attributes) \subseteq Range(last.a.attributes)
  /\ ~(Range(last.a.attributes) \subseteq Range(last.b.attributes))

\* C2: division inverse property: when every attribute of B appears in A
\* and A has an attribute not in B, division(A, B) returns a Relation, and
\* every tuple x of it combined with every tuple of B is a tuple of A,
\* whatever the order of B's attributes and their places in A's schema.
C2_DivisionInverse ==
  DivisionCalled =>
    /\ last.err = "none"
    /\ rels["R"].live
    /\ \A x \in Elems(rels["R"].data) : Divides(last.a, last.b, x)

\* B lists two attributes in another order than A, with a result attribute
\* of A between them, and the quotient is not empty
C2_Witness ==
  /\ DivisionCalled
  /\ Len(last.a.attributes) = 3
  /\ Len(last.b.attributes) = 2
  /\ last.b.attributes = <<last.a.attributes[3], last.a.attributes[1]>>
  /\ Elems(last.b.data) # {}
  /\ rels["R"].live
  /\ Elems(rels["R"].data) # {}

\* C3 as stated: the quotient is maximal among all tuples x over the result
\* attributes: no x outside it has {x} x B.data inside A.data, also when
\* B.data is empty.
C3_Original ==
  DivisionCalled =>
    /\ rels["R"].live
    /\ \A x \in Tuples(Len(RestAttrs(last.a, last.b))) :
         x \notin Elems(rels["R"].data) => ~Divides(last.a, last.b, x)

\* C3 (amended): division(A, B) holds exactly the X values of A's tuples
\* (A's tuples on the result attributes' positions) that are in A with every
\* tuple of B.  No other x has {x} x B.data inside A.data when B.data is not
\* empty; when B.data is empty the quotient is the set of X values of A,
\* not every tuple over the result attributes.
C3_DivisionLargest ==
  DivisionCalled =>
    /\ rels["R"].live
    /\ rels["R"].data =
         SetColl({x \in XValues(last.a, last.b) : Divides(last.a, last.b, x)})
    /\ Elems(last.b.data) # {} =>
         \A x \in Tuples(Len(RestAttrs(last.a, last.b))) :
           x \notin Elems(rels["R"].data) => ~Divides(last.a, last.b, x)
    /\ Elems(last.b.data) = {} =>
         rels["R"].data = SetColl(XValues(last.a, last.b))

\* one X value of A is in the quotient and another is not
C3_Witness ==
  /\ DivisionCalled
  /\ rels["R"].live
  /\ Elems(last.b.data) # {}
  /\ Elems(rels["R"].data) # {}
  /\ XValues(last.a, last.b) \ Elems(rels["R"].data) # {}

\* C7: division(A, B) raises the attribute-subset error when some attribute
\* of B is not in A; otherwise the empty-result-schema error when every
\* attribute of A is in B; both times it returns nothing.  In every other
\* case it returns a Relation whose schema is A's attributes not in B, in
\* A's order.  (The subset test comes first: when both conditions hold the
\* error is the attribute-subset one.)
C7_DivisionErrors ==
  last.op = "division" =>
    LET subset == Range(last.b.attributes) \subseteq Range(last.a.attributes)
        empty == Range(last.a.attributes) \subseteq Range(last.b.attributes)
    IN /\ ~subset => last.err = "AttributeSubset" /\ ~rels["R"].live
       /\ subset /\ empty => last.err = "EmptyResultSchema" /\ ~rels["R"].live
       /\ subset /\ ~empty =>
            /\ last.err = "none"
            /\ rels["R"].live
            /\ rels["R"].attributes = RestAttrs(last.a, last.b)

\* a divisor with an attribute the dividend lacks, which also covers every
\* attribute of the dividend: both preconditions fail
C7_Witness ==
  /\ last.op = "division"
  /\ last.err = "AttributeSubset"
  /\ ~(Range(last.b.attributes) \subseteq Range(last.a.attributes))
  /\ Range(last.a.attributes) \subseteq Range(last.b.attributes)
  /\ ~rels["R"].live

\* t and u hold equal values on every attribute named in cols
AgreeOn(A, cols, t, u) ==
  \A k \in 1..Len(cols), i \in 1..Len(A.attributes) :
    A.attributes[i] = cols[k] => t[i] = u[i]

\* r is t restricted to cols: column k of r is t's value on attribute cols[k]
ImageOf(A, cols, t, r) ==
  /\ Len(r) = Len(cols)
  /\ \A k \in 1..Len(cols), i \in 1..Len(A.attributes) :
       A.attributes[i] = cols[k] => r[k] = t[i]

ProjectionDone ==
  /\ last.op = "projection"
  /\ last.err = "none"

\* C8: projection is idempotent: for cols naming attributes of R in any
\* order, restricting or repeating them, projecting the result of
\* projection(R, cols) on cols again gives the same attributes and the same
\* data; and the result holds one tuple for each class of input tuples that
\* agree on the kept attributes.
C8_ProjectionIdempotent ==
  ProjectionDone =>
    LET R == rels["R"]
        again == projection(R, last.names)
    IN /\ R.live
       /\ again.err = "none"
       /\ again.attributes = R.attributes
       /\ again.data = R.data
       \* the second of two calls with the same cols returned what it was given
       /\ last.a.depth = 1 /\ last.a.attributes = last.names =>
            R.attributes = last.a.attributes /\ R.data = last.a.data
       \* one output tuple for each class of agreeing input tuples
       /\ Distinct(last.a.attributes) =>
            /\ R.data.kind = "set"
            /\ \A t \in Elems(last.a.data) :
                 \E r \in Elems(R.data) : ImageOf(last.a, last.names, t, r)
            /\ \A r \in Elems(R.data) :
                 \E t \in Elems(last.a.data) : ImageOf(last.a, last.names, t, r)
            /\ \A t, u \in Elems(last.a.data) :
                 AgreeOn(last.a, last.names, t, u) =>
                   \A r \in Elems(R.data) :
                     ImageOf(last.a, last.names, t, r)
                       <=> ImageOf(last.a, last.names, u, r)

\* a second projection on the same reordered columns, after a first one
\* that dropped a column and collapsed two tuples into one
C8_Witness ==
  /\ ProjectionDone
  /\ last.a.depth = 1
  /\ last.a.attributes = last.names
  /\ Len(last.names) = 2
  /\ last.names[1] # last.names[2]
  /\ Len(rels["A"].attributes) = 3
  /\ rels["A"].attributes[3] = last.names[1]
  /\ rels["A"].attributes[1] = last.names[2]
  /\ Size(rels["R"].data) = 1
  /\ Size(rels["A"].data) = 2

\* every tuple of the collection occurs in it once
NoDuplicates(c) == \A t \in Elems(c) : Occurrences(c, t) = 1

\* the slot a constructor call binds its Relation to
Built == rels[last.a.name[1]]

\* C4 as stated: constructing a Relation from a collection of tuples of the
\* schema's arity succeeds and collapses the duplicates: the Relation's data
\* holds each distinct tuple of the collection once; and so does the data of
\* every Relation an operator returns.
C4_DuplicatesCollapse ==
  /\ (/\ last.op = "Relation"
      /\ \A t \in Elems(last.a.data) : Len(t) = Len(last.a.attributes))
       => /\ last.err = "none"
          /\ Built.live
          /\ Elems(Built.data) = Elems(last.a.data)
          /\ NoDuplicates(Built.data)
  /\ \A s \in Slots : rels[s].live => NoDuplicates(rels[s].data)

\* what does hold: a Relation keeps the collection it was given, so a set
\* stays free of duplicates, and every operator but rename and assign (which
\* copy the collection as it is) returns a set
C4_SetsStaySets ==
  /\ last.op = "Relation" /\ last.err = "none" => Built.data = last.a.data
  /\ \A s \in Slots :
       rels[s].live /\ rels[s].data.kind = "set" => NoDuplicates(rels[s].data)
  /\ last.err = "none" /\ last.op \notin {"none", "Relation", "rename", "assign"} =>
       rels["R"].data.kind = "set"
  /\ last.err = "none" /\ last.op \in {"rename", "assign"} =>
       rels["R"].data = last.a.data

\* C5: arity invariant: the constructor raises the arity error exactly when
\* some supplied tuple's length differs from the number of attributes, and
\* then no Relation is built; and every tuple of every Relation held, built
\* by the client or returned by any sequence of operator calls, has as many
\* values as the Relation has attributes.
C5_ArityInvariant ==
  /\ last.op = "Relation" =>
       /\ last.err = "ArityMismatch" <=>
            \E t \in Elems(last.a.data) : Len(t) # Len(last.a.attributes)
       /\ last.err \in {"none", "ArityMismatch"}
       /\ last.err = "none" <=> Built.live
  /\ \A s \in Slots :
       rels[s].live =>
         \A t \in Elems(rels[s].data) : Len(t) = Len(rels[s].attributes)

\* a join of a Relation with the result of an earlier call returned a
\* non-empty Relation of three columns
C5_Witness ==
  /\ last.op = "natural_join"
  /\ last.err = "none"
  /\ rels["R"].live
  /\ rels["R"].depth = 2
  /\ Len(rels["R"].attributes) = 3
  /\ Elems(rels["R"].data) # {}

\* the tuples the set operator named op makes of S and T
SetOp(op, S, T) ==
  CASE op = "union" -> S \cup T
    [] op = "intersection" -> S \cap T
    [] op = "difference" -> S \ T

\* C6 as stated: union, intersection and difference succeed exactly when
\* the two Relations have identical attribute sequences; otherwise the call
\* fails with the schema-mismatch error and returns nothing; on success the
\* schema is the shared one and the data is the set union / intersection /
\* difference of the two Relations' data.
C6_SetOperators ==
  last.op \in {"union", "intersection", "difference"} =>
    IF last.a.attributes = last.b.attributes
    THEN /\ last.err = "none"
         /\ rels["R"].live
         /\ rels["R"].attributes = last.a.attributes
         /\ rels["R"].data =
              SetColl(SetOp(last.op, Elems(last.a.data), Elems(last.b.data)))
    ELSE /\ last.err = "SchemaMismatch"
         /\ ~rels["R"].live

\* what does hold: C6 whenever the first Relation's collection is a set
C6_OnSets ==
  last.op \in {"union", "intersection", "difference"}
    /\ last.a.data.kind = "set" => C6_SetOperators

\* C9 as stated: cartesian_product(A, B) holds |A.data| * |B.data| tuples
\* and its schema is A's attribute list followed by B's.
C9_ProductCardinality ==
  last.op = "cartesian_product" =>
    /\ last.err = "none"
    /\ rels["R"].live
    /\ rels["R"].attributes = last.a.attributes \o last.b.attributes
    /\ Size(rels["R"].data) = Size(last.a.data) * Size(last.b.data)

\* what does hold: C9 counting the distinct tuples of each collection
C9_OnDistinctTuples ==
  last.op = "cartesian_product" =>
    /\ last.err = "none"
    /\ rels["R"].live
    /\ rels["R"].attributes = last.a.attributes \o last.b.attributes
    /\ Size(rels["R"].data) =
         Cardinality(Elems(last.a.data)) * Cardinality(Elems(last.b.data))

\* the Relations assign was given that are still held, other than its result
Sources ==
  {s \in Slots \ {"R"} :
     rels[s].live /\ rels[s].aid = last.a.aid /\ rels[s].did = last.a.did}

\* C10: assign(R, new_name) always succeeds and returns a Relation named
\* new_name whose attributes and data equal R's, in objects of its own; any
\* later in-place change to R's attribute list or tuple collection leaves
\* the copy's attributes and data as they were, and a change to the copy
\* leaves R's.
C10_AssignDeepCopy ==
  [][/\ last'.op = "assign" /\ last' # last =>
          /\ last'.err = "none"
          /\ rels'["R"].live
          /\ rels'["R"].name = <<last'.names[1]>>
          /\ rels'["R"].attributes = last'.a.attributes
          /\ rels'["R"].data = last'.a.data
          /\ rels'["R"].aid # last'.a.aid
          /\ rels'["R"].did # last'.a.did
     /\ last.op = "assign" /\ last' = last =>
          \A s \in Sources :
            /\ rels'[s] # rels[s] => rels'["R"] = rels["R"]
            /\ rels'["R"] # rels["R"] => rels'[s] = rels[s]]_vars

\* after the copy was made, the source's attribute list and tuple
\* collection were both changed in place, and the copy still holds what
\* assign was given
C10_Witness ==
  /\ last.op = "assign"
  /\ last.err = "none"
  /\ last.a.depth = 0
  /\ rels["A"].attributes # last.a.attributes
  /\ rels["A"].data # last.a.data
  /\ rels["R"].attributes = last.a.attributes
  /\ rels["R"].data = last.a.data
  /\ Len(last.a.attributes) = 2
  /\ Size(last.a.data) >= 1

\* a call of an operator of Relations
OperatorCalled == last.op \notin {"none", "Relation"}

\* C11: no operator changes the name, attributes or data of a Relation it
\* is given, whether it returns or raises: a call leaves its arguments as
\* they were, and every Relation the client constructed keeps its name,
\* attributes and data through any sequence of operator calls.
C11_InputsUnchanged ==
  [][/\ \A s \in Slots \ {"R"} : rels[s].live => rels'[s] = rels[s]
     /\ OperatorCalled' =>
          After(last'.op, last'.a, last'.b) = [a |-> last'.a, b |-> last'.b]]_vars

\* union was given the constructed Relation twice and returned a Relation
\* that refers to the argument's attribute list, and the argument is as it
\* was at the call
C11_Witness ==
  /\ last.op = "union"
  /\ last.err = "none"
  /\ rels["R"].depth = 1
  /\ last.a = rels["A"]
  /\ last.b = rels["A"]
  /\ rels["R"].aid = rels["A"].aid
  /\ Size(rels["A"].data) = MaxRows
  /\ Len(rels["A"].attributes) = MaxAttrs

\* a call that raised was given the constructed Relation and the result of
\* an earlier call, and the constructed Relation is as it was at the call
C11_WitnessError ==
  /\ OperatorCalled
  /\ last.err # "none"
  /\ last.a = rels["A"]
  /\ last.b.depth = 1
  /\ Size(rels["A"].data) >= 1

\* the items of data that equal no earlier item, in the order of data
FirstOccurrences(data) ==
  LET keep == {i \in 1..Len(data) :
                 \A j \in 1..(i - 1) : ~DictEq(data[j], data[i])}
  IN [n \in 1..Cardinality(keep) |->
        data[CHOOSE i \in keep : Cardinality({j \in keep : j <= i}) = n]]

\* C12: for every list of records with the same keys and int and str
\* values, the assertion of run_etl_pipeline passes: naive_deduplicate,
\* hash_deduplicate and set_deduplicate return the same number of records;
\* each returns the first occurrence of every distinct record, in input
\* order.
C12_StrategiesAgree ==
  etl.pc = "checked" =>
    /\ etl.err = "none"
    /\ Len(etl.unique_naive) = Len(etl.unique_hash)
    /\ Len(etl.unique_hash) = Len(etl.unique_set)
    /\ etl.unique_naive = FirstOccurrences(etl.data)
    /\ etl.unique_hash = FirstOccurrences(etl.data)
    /\ etl.unique_set = FirstOccurrences(etl.data)

\* the list held a record twice, the second time with its keys inserted in
\* the other order, and an int next to the str of its digits; the
\* strategies dropped the repetition and kept the two
C12_Witness ==
  /\ etl.pc = "checked"
  /\ Len(etl.data) = MaxRecords
  /\ DictEq(etl.data[1], etl.data[2])
  /\ etl.data[1] # etl.data[2]
  /\ Get(etl.data[1], <<"id">>) = IntVal(1)
  /\ Get(etl.data[3], <<"id">>) = StrVal(<<"1">>)
  /\ Get(etl.data[1], <<"name">>) = Get(etl.data[3], <<"name">>)
  /\ etl.unique_hash = <<etl.data[1], etl.data[3]>>

\* the pairs (position in data1, position in data2) whose records hold
\* equal values under key, a missing key counting as None
Matching(data1, data2, key) ==
  {p \in (1..Len(data1)) \X (1..Len(data2)) :
     Get(data1[p[1]], key) = Get(data2[p[2]], key)}

\* the pairs of P by position in data1, then by position in data2
Before(p, q) == p[1] < q[1] \/ (p[1] = q[1] /\ p[2] <= q[2])

InOrder(P) ==
  [n \in 1..Cardinality(P) |->
     CHOOSE p \in P : Cardinality({q \in P : Before(q, p)}) = n]

\* C13: hash_join(data1, data2, key) returns the same sequence of merged
\* records as naive_cartesian_join(data1, data2, key): one merged record
\* for each pair of records with equal values under key (also when both
\* miss the key), by position in data1 and then by position in data2.
C13_HashJoinIsNaiveJoin ==
  etl.pc = "joined" =>
    LET pairs == InOrder(Matching(etl.data1, etl.data2, etl.key))
    IN /\ etl.join_hash = etl.join_naive
       /\ Len(etl.join_hash) = Len(pairs)
       /\ \A n \in 1..Len(pairs) :
            etl.join_hash[n] = Merged(etl.data1[pairs[n][1]],
                                      etl.data2[pairs[n][2]], etl.key)

\* the first left record misses the key and matches the first and the
\* third right record, which miss it too; the second left record matches
\* the second right record on a value; both joins returned three records
C13_Witness ==
  /\ etl.pc = "joined"
  /\ Len(etl.data1) = 2
  /\ Len(etl.data2) = 3
  /\ Get(etl.data1[1], etl.key) = NoneVal
  /\ Get(etl.data2[1], etl.key) = NoneVal
  /\ Get(etl.data2[3], etl.key) = NoneVal
  /\ etl.data2[1] # etl.data2[3]
  /\ Get(etl.data1[2], etl.key) # NoneVal
  /\ Get(etl.data2[2], etl.key) = Get(etl.data1[2], etl.key)
  /\ Len(etl.join_hash) = 3
  /\ etl.join_hash[1] # etl.join_hash[2]

====
